---- MODULE Spec2Model ----
(***************************************************************************)
(* Model of the USB class of src/src/usb.ts: the allowed-device list, the  *)
(* requestDevice / getDevices operations, filter matching and the lazy     *)
(* relay of the adapter's connect / disconnect notifications.              *)
(***************************************************************************)
EXTENDS Integers, Sequences, FiniteSets, Bags, TLC

\* ------------------------------------------------------------------------
\* Bounds of the model
\* ------------------------------------------------------------------------
MaxListeners == 2   \* listeners of one kind registered on the USB object
MaxRequests == 2    \* requestDevice and getDevices calls in flight at the same time
MaxEnum == 2        \* devices in one adapter enumeration
MaxFilters == 2     \* filters in one sequence of the single-request scenario

\* ------------------------------------------------------------------------
\* Values
\* ------------------------------------------------------------------------
\* The JavaScript value undefined (a missing device, a missing argument).
undefined == [undefined |-> TRUE]

EventKinds == {"connect", "disconnect"}

\* An interface record: only its alternate descriptor is read.
Iface(c, s, p) ==
    [alternate |-> [interfaceClass |-> c, interfaceSubclass |-> s, interfaceProtocol |-> p]]

\* A device record as the adapter hands it out.
Device(v, p, sn, conn, h, c, sc, pr, ifaces) ==
    [vendorId |-> v, productId |-> p, serialNumber |-> sn, connected |-> conn,
     handle |-> h, deviceClass |-> c, deviceSubclass |-> sc, deviceProtocol |-> pr,
     configuration |-> [interfaces |-> ifaces]]

\* The devices the adapter of the model knows.  DevA1 and DevA2 are two
\* records of the same physical device (same identity triple), before and
\* after a replug; DevB differs from them in the serial number only.
DevA1 == Device(1, 1, "A", TRUE, 1, 0, 0, 0, <<Iface(3, 1, 1)>>)
DevA2 == Device(1, 1, "A", FALSE, 2, 0, 0, 0, <<Iface(3, 1, 1)>>)
DevB == Device(1, 1, "B", TRUE, 3, 2, 0, 0, <<>>)

DeviceUniverse == {DevA1, DevA2, DevB}

Handles == {d.handle : d \in DeviceUniverse} \cup {9}

RECURSIVE SeqsUpTo(_, _)
SeqsUpTo(S, n) ==
    IF n = 0 THEN {<<>>}
    ELSE LET shorter == SeqsUpTo(S, n - 1)
         IN shorter \cup {Append(s, x) : s \in {t \in shorter : Len(t) = n - 1}, x \in S}

\* The sequences of SeqsUpTo(S, n) that list no element twice.
DistinctSeqsUpTo(S, n) ==
    {s \in SeqsUpTo(S, n) : \A i, j \in 1..Len(s) : s[i] = s[j] => i = j}

\* What adapter.listUSBDevices() can resolve with: each device record once.
Enumerations == DistinctSeqsUpTo(DeviceUniverse, MaxEnum)

\* ------------------------------------------------------------------------
\* Filters and request options
\* ------------------------------------------------------------------------
FilterFields ==
    {"vendorId", "productId", "classCode", "subclassCode", "protocolCode", "serialnumber"}

\* A filter object: the members it has (specified) and their values; a
\* member that is not specified reads as undefined.
Filter(spec, v, p, c, sc, pr, sn) ==
    [specified |-> spec, vendorId |-> v, productId |-> p, classCode |-> c,
     subclassCode |-> sc, protocolCode |-> pr, serialnumber |-> sn]

\* JavaScript truthiness of a numeric member: present and not 0.
TruthyNum(filter, field) == field \in filter.specified /\ filter[field] # 0

\* JavaScript truthiness of a string member: present and not "".
TruthyStr(filter, field) == field \in filter.specified /\ filter[field] # ""

\* The argument of requestDevice.  shape is what the argument is
\* ("undefined", "notObject", "object"); filtersShape is what its filters
\* member is ("undefined", "notArray", "array").
Options(shape, filtersShape, filters) ==
    [shape |-> shape, filtersShape |-> filtersShape, filters |-> filters]

RequestOptions(fs) == Options("object", "array", fs)

\* ------------------------------------------------------------------------
\* Errors
\* ------------------------------------------------------------------------
TypeError(msg) == [name |-> "TypeError", message |-> msg]

Error(msg) == [name |-> "Error", message |-> msg]

\* What reading a property of undefined throws.
UndefinedAccess(property) ==
    TypeError("Cannot read properties of undefined (reading '" \o property \o "')")

\* What adapter.listUSBDevices() can fail with.
AdapterErrors == {Error("LIBUSB_ERROR_IO"), Error("")}

\* What the devicesFound callback can fail with.
CallbackErrors == {Error("cancelled")}

\* `${error}` of an error object (Error.prototype.toString): the name alone
\* when the message is empty, the message alone when the name is empty.
Describe(error) ==
    IF error.name = "" THEN error.message
    ELSE IF error.message = "" THEN error.name
    ELSE error.name \o ": " \o error.message

\* The catch clause hands the error of the adapter on as it is.
WrappedError_Raw(error) == error

\* The request-scoped error of the catch clause of requestDevice.
WrappedError(error) == Error("requestDevice error: " \o Describe(error))

\* ------------------------------------------------------------------------
\* The allowed-device list
\* ------------------------------------------------------------------------
isSameDevice(device1, device2) ==
    /\ device1.productId = device2.productId
    /\ device1.vendorId = device2.vendorId
    /\ device1.serialNumber = device2.serialNumber

\* isSameDevice reads a property of each argument: it throws on undefined.
isSameDeviceThrows(device1, device2) == device1 = undefined \/ device2 = undefined

\* The loop of replaceAllowedDevice from index i on.  threw: the loop ended
\* in a TypeError; found: the return value; list: the list afterwards.
RECURSIVE replaceFrom(_, _, _)
replaceFrom(list, device, i) ==
    IF i > Len(list)
    THEN [threw |-> FALSE, found |-> FALSE, list |-> list]
    ELSE IF isSameDeviceThrows(device, list[i])
    THEN [threw |-> TRUE, found |-> FALSE, list |-> list]
    ELSE IF isSameDevice(device, list[i])
    THEN [threw |-> FALSE, found |-> TRUE, list |-> [list EXCEPT ![i] = device]]
    ELSE replaceFrom(list, device, i + 1)

\* Variant: the entry is replaced but the function still returns false.
replaceAllowedDevice_ReturnsFalse(list, device) ==
    [replaceFrom(list, device, 1) EXCEPT !.found = FALSE]

replaceAllowedDevice(list, device) == replaceFrom(list, device, 1)

\* Variant: a device that is not in the list yet is not appended.
selectFn_NoAppend(list, device) ==
    LET r == replaceAllowedDevice(list, device)
    IN IF r.threw
       THEN [threw |-> TRUE, list |-> list, settles |-> <<>>]
       ELSE [threw |-> FALSE, list |-> r.list,
             settles |-> <<[call |-> "resolve", value |-> device]>>]

\* Variant: an entry of the same identity keeps its older record.
selectFn_KeepsOlder(list, device) ==
    LET r == replaceAllowedDevice(list, device)
    IN IF r.threw
       THEN [threw |-> TRUE, list |-> list, settles |-> <<>>]
       ELSE [threw |-> FALSE,
             list |-> IF r.found THEN list ELSE Append(r.list, device),
             settles |-> <<[call |-> "resolve", value |-> device]>>]

\* Variant: a device that is not in the list yet is put in front of it.
selectFn_AppendsFirst(list, device) ==
    LET r == replaceAllowedDevice(list, device)
    IN IF r.threw
       THEN [threw |-> TRUE, list |-> list, settles |-> <<>>]
       ELSE [threw |-> FALSE,
             list |-> IF r.found THEN r.list ELSE <<device>> \o r.list,
             settles |-> <<[call |-> "resolve", value |-> device]>>]

\* selectFn of requestDevice: replace or append, then resolve.  settles is
\* the sequence of resolve / reject calls it makes.
selectFn(list, device) ==
    LET r == replaceAllowedDevice(list, device)
    IN IF r.threw
       THEN [threw |-> TRUE, list |-> list, settles |-> <<>>]
       ELSE [threw |-> FALSE,
             list |-> IF r.found THEN r.list ELSE Append(r.list, device),
             settles |-> <<[call |-> "resolve", value |-> device]>>]

\* ------------------------------------------------------------------------
\* Filter matching
\* ------------------------------------------------------------------------
\* The callback of interfaces.some(...) in filterDevice.
ifaceMatch(filter, iface) ==
    IF TruthyNum(filter, "classCode") /\ filter.classCode # iface.alternate.interfaceClass
    THEN FALSE
    ELSE IF TruthyNum(filter, "subclassCode")
            /\ filter.subclassCode # iface.alternate.interfaceSubclass
    THEN FALSE
    ELSE IF TruthyNum(filter, "protocolCode")
            /\ filter.protocolCode # iface.alternate.interfaceProtocol
    THEN FALSE
    ELSE TRUE

\* The callback of filters.some(...) in filterDevice: one filter, one device.
filterMatch(filter, device) ==
    LET ifaces == device.configuration.interfaces
        match == \E i \in 1..Len(ifaces) : ifaceMatch(filter, ifaces[i])
    IN IF TruthyNum(filter, "vendorId") /\ filter.vendorId # device.vendorId THEN FALSE
       ELSE IF TruthyNum(filter, "productId") /\ filter.productId # device.productId THEN FALSE
       ELSE IF TruthyNum(filter, "classCode") /\ match THEN TRUE
       ELSE IF TruthyNum(filter, "classCode") /\ filter.classCode # device.deviceClass THEN FALSE
       ELSE IF TruthyNum(filter, "subclassCode") /\ filter.subclassCode # device.deviceSubclass
       THEN FALSE
       ELSE IF TruthyNum(filter, "protocolCode") /\ filter.protocolCode # device.deviceProtocol
       THEN FALSE
       ELSE IF TruthyStr(filter, "serialnumber") /\ filter.serialnumber # device.serialNumber
       THEN FALSE
       ELSE TRUE

\* Variant: an empty filter list matches every device.
filterDevice_EmptyMatchesAll(options, device) ==
    \/ options.filters = <<>>
    \/ \E i \in 1..Len(options.filters) : filterMatch(options.filters[i], device)

filterDevice(options, device) ==
    \E i \in 1..Len(options.filters) : filterMatch(options.filters[i], device)

\* ------------------------------------------------------------------------
\* Request validation
\* ------------------------------------------------------------------------
NoError == [name |-> "", message |-> ""]

\* The callback of filters.every(...) in requestDevice: the error it rejects
\* with, NoError when the filter passes.
checkFilter(filter) ==
    IF TruthyNum(filter, "protocolCode") /\ ~TruthyNum(filter, "subclassCode")
    THEN TypeError("requestDevice error: subclass code is required")
    ELSE IF TruthyNum(filter, "subclassCode") /\ ~TruthyNum(filter, "classCode")
    THEN TypeError("requestDevice error: class code is required")
    ELSE NoError

\* filters.every(...): stops at the first filter that fails.
RECURSIVE checkFilters(_, _)
checkFilters(filters, i) ==
    IF i > Len(filters) THEN NoError
    ELSE IF checkFilter(filters[i]) # NoError THEN checkFilter(filters[i])
    ELSE checkFilters(filters, i + 1)

\* The synchronous part of requestDevice: the error the call is rejected
\* with before the adapter is asked, NoError when the adapter is asked.
validate(options) ==
    IF options.shape = "undefined"
    THEN TypeError("requestDevice error: 1 argument required, but only 0 present")
    ELSE IF options.shape # "object"
    THEN TypeError("requestDevice error: parameter 1 (options) is not an object")
    ELSE IF options.filtersShape = "undefined"
    THEN TypeError("requestDevice error: required member filters is undefined")
    ELSE IF options.filtersShape # "array"
    THEN TypeError("requestDevice error: the provided value cannot be converted to a sequence")
    ELSE checkFilters(options.filters, 1)

\* ------------------------------------------------------------------------
\* Device discovery
\* ------------------------------------------------------------------------
\* The for-in loop of the filter callback of getDevices from index i on:
\* "true" / "false" as returned, "throw" when isSameDevice throws.
RECURSIVE allowedLoop(_, _, _)
allowedLoop(list, device, i) ==
    IF i > Len(list) THEN "false"
    ELSE IF isSameDeviceThrows(device, list[i]) THEN "throw"
    ELSE IF isSameDevice(device, list[i]) THEN "true"
    ELSE allowedLoop(list, device, i + 1)

\* Variant: the connected flag is not looked at.
allowedFilter_IgnoresConnected(list, device) == allowedLoop(list, device, 1)

\* The filter callback of getDevices for one device.
allowedFilter(list, device) ==
    IF ~device.connected THEN "false" ELSE allowedLoop(list, device, 1)

\* The then-callback of getDevices on an enumeration.
getDevicesThen(list, devices) ==
    IF \E i \in 1..Len(devices) : allowedFilter(list, devices[i]) = "throw"
    THEN [threw |-> TRUE, allowed |-> <<>>]
    ELSE [threw |-> FALSE,
          allowed |-> SelectSeq(devices, LAMBDA d : allowedFilter(list, d) = "true")]

\* ------------------------------------------------------------------------
\* The asynchronous part of requestDevice
\* ------------------------------------------------------------------------
Reject(error) == [call |-> "reject", value |-> error]

\* Variant: without a callback the last matching device is selected.
listedThen_LastDevice(list, options, found, hasCallback) ==
    LET devices == SelectSeq(found, LAMBDA d : filterDevice(options, d))
        sel == selectFn(list, devices[Len(devices)])
    IN IF Len(devices) = 0
       THEN [list |-> list, ask |-> FALSE, devices |-> devices,
             settles |-> <<Reject(Error("requestDevice error: no devices found"))>>,
             threw |-> FALSE, error |-> NoError]
       ELSE IF hasCallback
       THEN [list |-> list, ask |-> TRUE, devices |-> devices, settles |-> <<>>,
             threw |-> FALSE, error |-> NoError]
       ELSE IF sel.threw
       THEN [list |-> list, ask |-> FALSE, devices |-> devices, settles |-> <<>>,
             threw |-> TRUE, error |-> UndefinedAccess("productId")]
       ELSE [list |-> sel.list, ask |-> FALSE, devices |-> devices, settles |-> sel.settles,
             threw |-> FALSE, error |-> NoError]

\* The then-callback on the adapter's enumeration.  settles: the resolve /
\* reject calls made; ask: the devicesFound callback was invoked; threw:
\* the callback threw error, which the catch-callback handles in a later job.
listedThen(list, options, found, hasCallback) ==
    LET devices == SelectSeq(found, LAMBDA d : filterDevice(options, d))
        sel == selectFn(list, devices[1])
    IN IF Len(devices) = 0
       THEN [list |-> list, ask |-> FALSE, devices |-> devices,
             settles |-> <<Reject(Error("requestDevice error: no devices found"))>>,
             threw |-> FALSE, error |-> NoError]
       ELSE IF hasCallback
       THEN [list |-> list, ask |-> TRUE, devices |-> devices, settles |-> <<>>,
             threw |-> FALSE, error |-> NoError]
       ELSE IF sel.threw
       THEN [list |-> list, ask |-> FALSE, devices |-> devices, settles |-> <<>>,
             threw |-> TRUE, error |-> UndefinedAccess("productId")]
       ELSE [list |-> sel.list, ask |-> FALSE, devices |-> devices, settles |-> sel.settles,
             threw |-> FALSE, error |-> NoError]

\* Variant: an empty result is rejected only after selectFn ran.
selectedThen_SelectsBeforeReject(list, device) ==
    LET first == IF device = undefined
                 THEN <<Reject(Error("selected device not found"))>>
                 ELSE <<>>
        sel == selectFn(list, device)
    IN IF sel.threw
       THEN [list |-> list, settles |-> <<>>,
             threw |-> TRUE, error |-> UndefinedAccess("productId")]
       ELSE [list |-> sel.list, settles |-> sel.settles \o first,
             threw |-> FALSE, error |-> NoError]

\* The then-callback on the result of the devicesFound callback; threw: it
\* threw error after the calls of settles.
selectedThen(list, device) ==
    LET first == IF device = undefined
                 THEN <<Reject(Error("selected device not found"))>>
                 ELSE <<>>
        sel == selectFn(list, device)
    IN IF sel.threw
       THEN [list |-> list, settles |-> first,
             threw |-> TRUE, error |-> UndefinedAccess("productId")]
       ELSE [list |-> sel.list, settles |-> first \o sel.settles,
             threw |-> FALSE, error |-> NoError]

\* The catch-callback of requestDevice on an error a then-callback threw:
\* the calls made on the promise of the call, settled being those made
\* before.
caughtThen(settled, error) == settled \o <<Reject(WrappedError(error))>>

\* ------------------------------------------------------------------------
\* Hot-plug relay
\* ------------------------------------------------------------------------
\* Variant: connect is emitted whether or not an entry was replaced.
deviceConnectCallback_AlwaysEmits(list, device) ==
    LET r == replaceAllowedDevice(list, device)
    IN [list |-> r.list, emit |-> ~r.threw, threw |-> r.threw,
        error |-> IF r.threw THEN UndefinedAccess("productId") ELSE NoError]

\* deviceConnectCallback: the list afterwards, whether connect was emitted,
\* whether the callback threw.
deviceConnectCallback(list, device) ==
    LET r == replaceAllowedDevice(list, device)
    IN [list |-> r.list, emit |-> ~r.threw /\ r.found, threw |-> r.threw,
        error |-> IF r.threw THEN UndefinedAccess("productId") ELSE NoError]

\* allowedDevices.find(...) of deviceDisconnectCallback from index i on:
\* the index found, 0 for no entry, -1 when reading the handle throws.
RECURSIVE findHandle(_, _, _)
findHandle(list, handle, i) ==
    IF i > Len(list) THEN 0
    ELSE IF list[i] = undefined THEN -1
    ELSE IF list[i].handle = handle THEN i
    ELSE findHandle(list, handle, i + 1)

\* Variant: the first entry is taken whatever handle it carries.
deviceDisconnectCallback_AnyHandle(list, handle) ==
    [emitted |-> IF Len(list) > 0 /\ list[1] # undefined
                 THEN <<[event |-> "disconnect", device |-> list[1]]>>
                 ELSE <<>>,
     threw |-> Len(list) > 0 /\ list[1] = undefined,
     error |-> IF Len(list) > 0 /\ list[1] = undefined
               THEN UndefinedAccess("_handle")
               ELSE NoError]

\* deviceDisconnectCallback: the events emitted and whether it threw.
deviceDisconnectCallback(list, handle) ==
    LET i == findHandle(list, handle, 1)
    IN [emitted |-> IF i > 0 THEN <<[event |-> "disconnect", device |-> list[i]]>> ELSE <<>>,
        threw |-> i = -1,
        error |-> IF i = -1 THEN UndefinedAccess("_handle") ELSE NoError]

\* this.listenerCount(event) as the newListener handler reads it: the
\* dispatcher emits newListener before it adds the listener.
countOnNewListener(registered) == registered

\* this.listenerCount(event) as the removeListener handler reads it: the
\* dispatcher emits removeListener after it removed the listener.
countOnRemoveListener(registered) == registered - 1

\* Variant: the handler subscribes without looking at the listener count.
newListenerHandler_NoCountCheck(listenerCount, subscriptions) == subscriptions + 1

\* The newListener handler: the adapter subscriptions of the event afterwards.
newListenerHandler(listenerCount, subscriptions) ==
    IF listenerCount # 0 THEN subscriptions ELSE subscriptions + 1

\* Variant: the callback stays subscribed to the adapter.
removeListenerHandler_KeepsSubscription(listenerCount, subscriptions) == subscriptions

\* The removeListener handler: the adapter subscriptions afterwards
\* (removing a callback that is not subscribed changes nothing).
removeListenerHandler(listenerCount, subscriptions) ==
    IF listenerCount # 0 THEN subscriptions
    ELSE IF subscriptions > 0 THEN subscriptions - 1 ELSE 0

\* ------------------------------------------------------------------------
\* State
\* ------------------------------------------------------------------------
VARIABLES
    allowedDevices,     \* this.allowedDevices
    devicesFound,       \* TRUE when options.devicesFound was given to the constructor
    listeners,          \* listeners registered on the USB object, per event kind
    adapterListeners,   \* subscriptions of the relay callbacks on the adapter, per kind
    requests,           \* the bag of the requestDevice calls in flight
    discoveries,        \* the number of getDevices calls in flight
    resolved,           \* identity triples of the devices requestDevice resolved with
    last                \* the operation of the last step and what it produced

vars ==
    <<allowedDevices, devicesFound, listeners, adapterListeners, requests, discoveries,
      resolved, last>>

NoOptions == Options("undefined", "undefined", <<>>)

\* A requestDevice call in flight: waiting for the adapter's enumeration
\* with its options, waiting for the devicesFound callback, or waiting for
\* its catch-callback to run on the error a then-callback threw (settles:
\* the resolve / reject calls the call made before the throw).
Listing(options) ==
    [pc |-> "listing", options |-> options, error |-> NoError, settles |-> <<>>]

Selecting == [pc |-> "selecting", options |-> NoOptions, error |-> NoError, settles |-> <<>>]

Catching(error, settles) ==
    [pc |-> "catching", options |-> NoOptions, error |-> error, settles |-> settles]

IdOf(device) == <<device.vendorId, device.productId, device.serialNumber>>

\* The observation of a step: its operation, inputs and outputs.  settles
\* holds the resolve / reject calls made on the promise of the call up to
\* and including the step, in the order made.
Obs(op) ==
    [op |-> op, options |-> NoOptions, enumOk |-> FALSE, enum |-> <<>>,
     error |-> NoError, device |-> undefined, handle |-> 0, kind |-> "",
     settles |-> <<>>, listCalled |-> FALSE, asked |-> FALSE, candidates |-> <<>>,
     emitted |-> <<>>, threw |-> FALSE, before |-> <<>>]

\* The first resolve / reject call decides a promise; later calls are ignored.
Outcome(settles) == IF settles = <<>> THEN "pending" ELSE Head(settles).call

Settled(settles) == IF settles = <<>> THEN undefined ELSE Head(settles).value

ResolvedWith(settles) ==
    IF Outcome(settles) = "resolve" /\ Head(settles).value # undefined
    THEN {IdOf(Head(settles).value)}
    ELSE {}

Init ==
    /\ allowedDevices = <<>>
    /\ devicesFound \in BOOLEAN
    /\ listeners = [k \in EventKinds |-> 0]
    /\ adapterListeners = [k \in EventKinds |-> 0]
    /\ requests = EmptyBag
    /\ discoveries = 0
    /\ resolved = {}
    /\ last = Obs("init")

\* ------------------------------------------------------------------------
\* Operations
\* ------------------------------------------------------------------------
\* requestDevice(options) up to the call of adapter.listUSBDevices().
requestDevice(options) ==
    /\ BagCardinality(requests) + discoveries < MaxRequests
    /\ LET error == validate(options)
       IN IF error # NoError
          THEN /\ requests' = requests
               /\ last' = [Obs("requestDevice") EXCEPT !.options = options,
                              !.settles = <<Reject(error)>>, !.before = allowedDevices]
          ELSE /\ requests' = requests (+) SetToBag({Listing(options)})
               /\ last' = [Obs("requestDevice") EXCEPT !.options = options,
                              !.listCalled = TRUE, !.before = allowedDevices]
    /\ UNCHANGED <<allowedDevices, devicesFound, listeners, adapterListeners, resolved,
                   discoveries>>

\* The adapter's enumeration of the requestDevice call req resolves with found.
requestDeviceListed(req, found) ==
    /\ BagIn(req, requests)
    /\ req.pc = "listing"
    /\ LET t == listedThen(allowedDevices, req.options, found, devicesFound)
       IN /\ allowedDevices' = t.list
          /\ requests' =
                 IF t.ask
                 THEN (requests (-) SetToBag({req})) (+) SetToBag({Selecting})
                 ELSE IF t.threw
                 THEN (requests (-) SetToBag({req}))
                          (+) SetToBag({Catching(t.error, t.settles)})
                 ELSE requests (-) SetToBag({req})
          /\ resolved' = resolved \cup ResolvedWith(t.settles)
          /\ last' = [Obs("listed") EXCEPT !.options = req.options,
                         !.enumOk = TRUE, !.enum = found, !.settles = t.settles,
                         !.asked = t.ask, !.candidates = t.devices,
                         !.threw = t.threw, !.before = allowedDevices]
    /\ UNCHANGED <<devicesFound, listeners, adapterListeners, discoveries>>

\* The adapter's enumeration of the requestDevice call req fails with error.
requestDeviceListFailed(req, error) ==
    /\ BagIn(req, requests)
    /\ req.pc = "listing"
    /\ requests' = requests (-) SetToBag({req})
    /\ last' = [Obs("listed") EXCEPT !.options = req.options,
                   !.error = error, !.settles = caughtThen(<<>>, error),
                   !.before = allowedDevices]
    /\ UNCHANGED <<allowedDevices, devicesFound, listeners, adapterListeners, resolved,
                   discoveries>>

\* The devicesFound callback of a requestDevice call resolves with device
\* (a device record or undefined: the code takes whatever it returns).
requestDeviceSelected(device) ==
    /\ BagIn(Selecting, requests)
    /\ LET t == selectedThen(allowedDevices, device)
       IN /\ allowedDevices' = t.list
          /\ resolved' = resolved \cup ResolvedWith(t.settles)
          /\ requests' =
                 IF t.threw
                 THEN (requests (-) SetToBag({Selecting}))
                          (+) SetToBag({Catching(t.error, t.settles)})
                 ELSE requests (-) SetToBag({Selecting})
          /\ last' = [Obs("selected") EXCEPT !.device = device, !.settles = t.settles,
                         !.threw = t.threw, !.before = allowedDevices]
    /\ UNCHANGED <<devicesFound, listeners, adapterListeners, discoveries>>

\* The devicesFound callback of a requestDevice call fails with error.
requestDeviceSelectFailed(error) ==
    /\ BagIn(Selecting, requests)
    /\ requests' = requests (-) SetToBag({Selecting})
    /\ last' = [Obs("selected") EXCEPT !.error = error,
                   !.settles = caughtThen(<<>>, error), !.before = allowedDevices]
    /\ UNCHANGED <<allowedDevices, devicesFound, listeners, adapterListeners, resolved,
                   discoveries>>

\* The catch-callback of the requestDevice call req runs on the error a
\* then-callback of the call threw in an earlier job.
requestDeviceCaught(req) ==
    /\ BagIn(req, requests)
    /\ req.pc = "catching"
    /\ requests' = requests (-) SetToBag({req})
    /\ last' = [Obs("caught") EXCEPT !.error = req.error,
                   !.settles = caughtThen(req.settles, req.error),
                   !.before = allowedDevices]
    /\ UNCHANGED <<allowedDevices, devicesFound, listeners, adapterListeners, resolved,
                   discoveries>>

\* getDevices(): the adapter is asked for its devices and the call waits
\* for the enumeration.
getDevices ==
    /\ BagCardinality(requests) + discoveries < MaxRequests
    /\ discoveries' = discoveries + 1
    /\ last' = [Obs("getDevices") EXCEPT !.listCalled = TRUE, !.before = allowedDevices]
    /\ UNCHANGED <<allowedDevices, devicesFound, listeners, adapterListeners, requests,
                   resolved>>

\* Variant: getDevices keeps in the list only the devices it returns.
getDevicesListed_StoresResult(devices) ==
    /\ discoveries > 0
    /\ discoveries' = discoveries - 1
    /\ LET t == getDevicesThen(allowedDevices, devices)
       IN /\ last' = [Obs("discovered") EXCEPT !.enumOk = TRUE, !.enum = devices,
                         !.threw = t.threw,
                         !.settles = IF t.threw
                                     THEN <<Reject(UndefinedAccess("productId"))>>
                                     ELSE <<[call |-> "resolve", value |-> t.allowed]>>,
                         !.before = allowedDevices]
          /\ allowedDevices' = IF t.threw THEN allowedDevices ELSE t.allowed
    /\ UNCHANGED <<devicesFound, listeners, adapterListeners, requests, resolved>>

\* The adapter's enumeration of a getDevices call resolves with devices:
\* the then-callback reads the list as it is now.
getDevicesListed(devices) ==
    /\ discoveries > 0
    /\ discoveries' = discoveries - 1
    /\ LET t == getDevicesThen(allowedDevices, devices)
       IN last' = [Obs("discovered") EXCEPT !.enumOk = TRUE, !.enum = devices,
                      !.threw = t.threw,
                      !.settles = IF t.threw
                                  THEN <<Reject(UndefinedAccess("productId"))>>
                                  ELSE <<[call |-> "resolve", value |-> t.allowed]>>,
                      !.before = allowedDevices]
    /\ UNCHANGED <<allowedDevices, devicesFound, listeners, adapterListeners, requests,
                   resolved>>

\* The adapter's enumeration of a getDevices call fails with error.
getDevicesListFailed(error) ==
    /\ discoveries > 0
    /\ discoveries' = discoveries - 1
    /\ last' = [Obs("discovered") EXCEPT !.error = error, !.settles = <<Reject(error)>>,
                   !.before = allowedDevices]
    /\ UNCHANGED <<allowedDevices, devicesFound, listeners, adapterListeners, requests,
                   resolved>>

\* The adapter notifies the connection of device: every subscription of
\* deviceConnectCallback runs, none when the adapter holds no subscription.
adapterConnect(device) ==
    /\ LET t == IF adapterListeners["connect"] > 0
                THEN deviceConnectCallback(allowedDevices, device)
                ELSE [list |-> allowedDevices, emit |-> FALSE, threw |-> FALSE,
                      error |-> NoError]
       IN /\ allowedDevices' = t.list
          /\ last' = [Obs("connect") EXCEPT !.device = device, !.threw = t.threw,
                         !.error = t.error,
                         !.emitted = IF t.emit
                                     THEN [i \in 1..adapterListeners["connect"] |->
                                              [event |-> "connect", device |-> device]]
                                     ELSE <<>>,
                         !.before = allowedDevices]
    /\ UNCHANGED <<devicesFound, listeners, adapterListeners, requests, resolved,
                   discoveries>>

\* Variant: the entries of the disconnected device are dropped from the list.
adapterDisconnect_DropsEntry(handle) ==
    /\ LET t == IF adapterListeners["disconnect"] > 0
                THEN deviceDisconnectCallback(allowedDevices, handle)
                ELSE [emitted |-> <<>>, threw |-> FALSE, error |-> NoError]
       IN /\ last' = [Obs("disconnect") EXCEPT !.handle = handle, !.threw = t.threw,
                      !.error = t.error,
                         !.emitted = t.emitted, !.before = allowedDevices]
          /\ allowedDevices' =
                 IF t.emitted = <<>>
                 THEN allowedDevices
                 ELSE SelectSeq(allowedDevices, LAMBDA d : d # t.emitted[1].device)
    /\ UNCHANGED <<devicesFound, listeners, adapterListeners, requests, resolved,
                   discoveries>>

\* The adapter notifies the disconnection of the device with the handle.
adapterDisconnect(handle) ==
    /\ LET t == IF adapterListeners["disconnect"] > 0
                THEN deviceDisconnectCallback(allowedDevices, handle)
                ELSE [emitted |-> <<>>, threw |-> FALSE, error |-> NoError]
       IN last' = [Obs("disconnect") EXCEPT !.handle = handle, !.threw = t.threw,
                      !.error = t.error,
                      !.emitted = t.emitted, !.before = allowedDevices]
    /\ UNCHANGED <<allowedDevices, devicesFound, listeners, adapterListeners, requests,
                   resolved, discoveries>>

\* usb.on(kind, listener): newListener is handled, then the listener is added.
addListener(kind) ==
    /\ listeners[kind] < MaxListeners
    /\ adapterListeners' = [adapterListeners EXCEPT ![kind] =
           newListenerHandler(countOnNewListener(listeners[kind]), adapterListeners[kind])]
    /\ listeners' = [listeners EXCEPT ![kind] = listeners[kind] + 1]
    /\ last' = [Obs("addListener") EXCEPT !.kind = kind, !.before = allowedDevices]
    /\ UNCHANGED <<allowedDevices, devicesFound, requests, resolved, discoveries>>

\* usb.removeListener(kind, listener) of a registered listener: the listener
\* is removed, then removeListener is handled.
removeListener(kind) ==
    /\ listeners[kind] > 0
    /\ listeners' = [listeners EXCEPT ![kind] = listeners[kind] - 1]
    /\ adapterListeners' = [adapterListeners EXCEPT ![kind] =
           removeListenerHandler(countOnRemoveListener(listeners[kind]),
                                 adapterListeners[kind])]
    /\ last' = [Obs("removeListener") EXCEPT !.kind = kind, !.before = allowedDevices]
    /\ UNCHANGED <<allowedDevices, devicesFound, requests, resolved, discoveries>>

\* ------------------------------------------------------------------------
\* The callers of the model
\* ------------------------------------------------------------------------
NoFilter == Filter({}, 0, 0, 0, 0, 0, "")

\* The arguments requestDevice is called with: no argument (an argument
\* error), a filter with protocolCode only (a validation error) and a
\* filter that matches every device.  The other arguments and filters are
\* those of the single-request scenario below.
CallOptions ==
    {NoOptions,
     RequestOptions(<<[NoFilter EXCEPT !.specified = {"protocolCode"}, !.protocolCode = 1]>>),
     RequestOptions(<<NoFilter>>)}

RequestStep ==
    \/ \E options \in CallOptions : requestDevice(options)
    \/ \E req \in BagToSet(requests), found \in Enumerations : requestDeviceListed(req, found)
    \/ \E req \in BagToSet(requests), error \in AdapterErrors :
           requestDeviceListFailed(req, error)
    \/ \E device \in DeviceUniverse \cup {undefined} : requestDeviceSelected(device)
    \/ \E error \in CallbackErrors : requestDeviceSelectFailed(error)
    \/ \E req \in BagToSet(requests) : requestDeviceCaught(req)

DiscoveryStep ==
    \/ getDevices
    \/ \E devices \in Enumerations : getDevicesListed(devices)
    \/ \E error \in AdapterErrors : getDevicesListFailed(error)

RelayStep ==
    \/ \E device \in DeviceUniverse : adapterConnect(device)
    \/ \E handle \in Handles : adapterDisconnect(handle)
    \/ \E kind \in EventKinds : addListener(kind)
    \/ \E kind \in EventKinds : removeListener(kind)

Next == RequestStep \/ DiscoveryStep \/ RelayStep

Spec == Init /\ [][Next]_vars

\* ------------------------------------------------------------------------
\* One request on a fresh USB object, over a larger set of filters and devices
\* ------------------------------------------------------------------------
\* A member that is absent, or present with one of the values.
Opt(values) == {[has |-> FALSE, v |-> 0]} \cup {[has |-> TRUE, v |-> x] : x \in values}

OptStr(values) == {[has |-> FALSE, v |-> ""]} \cup {[has |-> TRUE, v |-> x] : x \in values}

MkFilter(v, p, c, sc, pr, sn) ==
    Filter((IF v.has THEN {"vendorId"} ELSE {}) \cup (IF p.has THEN {"productId"} ELSE {})
             \cup (IF c.has THEN {"classCode"} ELSE {})
             \cup (IF sc.has THEN {"subclassCode"} ELSE {})
             \cup (IF pr.has THEN {"protocolCode"} ELSE {})
             \cup (IF sn.has THEN {"serialnumber"} ELSE {}),
           v.v, p.v, c.v, sc.v, pr.v, sn.v)

Absent == [has |-> FALSE, v |-> 0]

AbsentStr == [has |-> FALSE, v |-> ""]

\* Filters over the class-family members only.
HierarchyFilters ==
    {MkFilter(Absent, Absent, c, sc, pr, AbsentStr) :
        c \in Opt({0, 3}), sc \in Opt({0, 1}), pr \in Opt({0, 1})}

\* Filters over every member.
ProbeFilters ==
    {MkFilter(v, p, c, sc, pr, sn) :
        v \in Opt({1, 2}), p \in Opt({1}), c \in Opt({0, 3}), sc \in Opt({0, 1}),
        pr \in Opt({0, 1}), sn \in OptStr({"A", "B"})}

\* Every shape of the argument, every single filter, and the sequences of
\* class-family filters.
ProbeOptions ==
    {NoOptions, Options("notObject", "undefined", <<>>),
     Options("object", "undefined", <<>>), Options("object", "notArray", <<>>)}
        \cup {RequestOptions(<<f>>) : f \in ProbeFilters}
        \cup {RequestOptions(fs) : fs \in SeqsUpTo(HierarchyFilters, MaxFilters)}

ProbeClasses == {<<0, 0, 0>>, <<2, 0, 0>>, <<3, 0, 0>>, <<3, 1, 1>>}

ProbeInterfaces ==
    {<<>>,
     <<Iface(3, 1, 1)>>,
     <<Iface(3, 0, 0), Iface(2, 1, 1)>>,
     <<Iface(3, 1, 0), Iface(3, 0, 1)>>}

ProbeDevices ==
    {Device(1, 1, sn, TRUE, 1, c[1], c[2], c[3], ifaces) :
        sn \in {"A", "B"}, c \in ProbeClasses, ifaces \in ProbeInterfaces}

\* The enumerations of the scenario: every device alone, and the pairs of
\* three devices that differ in serial number, class and interfaces.
PairDevices ==
    {Device(1, 1, "A", TRUE, 1, 0, 0, 0, <<Iface(3, 1, 1)>>),
     Device(1, 1, "B", TRUE, 1, 0, 0, 0, <<Iface(3, 1, 1)>>),
     Device(1, 1, "B", TRUE, 1, 3, 1, 1, <<>>)}

ProbeEnumerations ==
    {<<device>> : device \in ProbeDevices}
        \cup {pair \in PairDevices \X PairDevices : pair[1] # pair[2]}

\* One requestDevice call on the USB object as constructed, then its enumeration.
NextRequest ==
    \/ /\ last.op = "init"
       /\ \E options \in ProbeOptions : requestDevice(options)
    \/ \E req \in BagToSet(requests), found \in ProbeEnumerations :
           requestDeviceListed(req, found)

SpecRequest == Init /\ [][NextRequest]_vars

\* ------------------------------------------------------------------------
\* Requests whose enumeration and callback complete
\* ------------------------------------------------------------------------
\* The promise of the adapter's enumeration of the call req settles, and the
\* then- or catch-callback of requestDevice runs.
CompleteListing(req) ==
    \/ \E found \in Enumerations : requestDeviceListed(req, found)
    \/ \E error \in AdapterErrors : requestDeviceListFailed(req, error)

\* The promise of the devicesFound callback settles, and the then- or
\* catch-callback of requestDevice runs.
CompleteSelecting ==
    \/ \E device \in DeviceUniverse \cup {undefined} : requestDeviceSelected(device)
    \/ \E error \in CallbackErrors : requestDeviceSelectFailed(error)

\* The calls waiting for their catch-callback: a then-callback threw
\* reading a property of an undefined entry, before or after it rejected
\* the call for an empty selection.
CatchingCalls ==
    {Catching(UndefinedAccess("productId"), settled) :
         settled \in {<<>>, <<Reject(Error("selected device not found"))>>}}

\* The catch-callback of a call whose then-callback threw runs.
CompleteCatching == \E req \in BagToSet(requests) : requestDeviceCaught(req)

\* requestDevice calls alone; every enumeration and every callback
\* eventually completes, and the event loop then runs the continuation the
\* call attached to its promise.
SpecSettle ==
    /\ Init
    /\ [][RequestStep]_vars
    /\ \A options \in CallOptions : WF_vars(CompleteListing(Listing(options)))
    /\ WF_vars(CompleteSelecting)
    /\ \A req \in CatchingCalls : WF_vars(requestDeviceCaught(req))

\* ------------------------------------------------------------------------
\* Overlapping requests
\* ------------------------------------------------------------------------
\* The requestDevice calls are all made before the first enumeration
\* completes, so they are in flight together; their continuations then run
\* in any order, each one to its end before the next (one event loop).
NextRace ==
    \/ /\ last.op \in {"init", "requestDevice"}
       /\ \E options \in CallOptions : requestDevice(options)
    \/ \E req \in BagToSet(requests) : CompleteListing(req)
    \/ CompleteSelecting
    \/ CompleteCatching

SpecRace == Init /\ [][NextRace]_vars

\* ------------------------------------------------------------------------
\* Properties
\* ------------------------------------------------------------------------
IsRequestOp(op) == op \in {"requestDevice", "listed", "selected", "caught"}

\* The entries of a list that are device records with the identity of device.
EntriesOf(list, device) ==
    {i \in 1..Len(list) : list[i] # undefined /\ IdOf(list[i]) = IdOf(device)}

\* C1: in every reachable state no two entries of the allowed-device list
\* have the same identity triple (vendorId, productId, serialNumber).
C1_UniqueIdentity ==
    \A i, j \in 1..Len(allowedDevices) :
        (i < j /\ allowedDevices[i] # undefined /\ allowedDevices[j] # undefined)
            => IdOf(allowedDevices[i]) # IdOf(allowedDevices[j])

\* A device with the identity of an entry of a two-entry list was selected
\* or reconnected: its record replaced the entry and the list kept two entries.
C1_Witness ==
    /\ last.op \in {"listed", "selected", "connect"}
    /\ Len(last.before) = 2
    /\ Len(allowedDevices) = 2
    /\ allowedDevices # last.before

\* C2: a requestDevice call that ends in rejection leaves the allowed-device
\* list exactly as it was (content, length and order).
C2_RejectionLeavesList ==
    (IsRequestOp(last.op) /\ Outcome(last.settles) = "reject")
        => allowedDevices = last.before

\* C3: a getDevices call whose adapter enumeration succeeds resolves, and
\* getDevices is rejected only when the enumeration itself fails.
C3_GetDevicesFailsOnlyWithAdapter ==
    last.op = "discovered"
        => (Outcome(last.settles) = "resolve" <=> last.enumOk)

\* C4: once requestDevice has resolved with a device, every later getDevices
\* call whose enumeration lists that device as connected resolves with a
\* list that contains it.
C4_ResolvedDeviceIsListed ==
    (last.op = "discovered" /\ last.enumOk)
        => \A i \in 1..Len(last.enum) :
               (last.enum[i].connected /\ IdOf(last.enum[i]) \in resolved)
                   => /\ Outcome(last.settles) = "resolve"
                      /\ \E j \in 1..Len(Settled(last.settles)) :
                             Settled(last.settles)[j] = last.enum[i]

\* getDevices returned a connected device that requestDevice resolved with
\* earlier and that was refreshed by a later selection or reconnection.
C4_Witness ==
    /\ last.op = "discovered"
    /\ Outcome(last.settles) = "resolve"
    /\ \E i \in 1..Len(last.enum) :
           /\ last.enum[i].connected
           /\ IdOf(last.enum[i]) \in resolved
           /\ \E j \in 1..Len(Settled(last.settles)) :
                  Settled(last.settles)[j] = last.enum[i]
           /\ \E k \in EntriesOf(allowedDevices, last.enum[i]) :
                  allowedDevices[k] # last.enum[i]

\* C5: getDevices resolves with exactly the devices of the enumeration that
\* are connected and whose identity triple is that of an allowed entry, in
\* the order of the enumeration.
C5_GetDevicesExact ==
    (last.op = "discovered" /\ Outcome(last.settles) = "resolve")
        => Settled(last.settles) =
               SelectSeq(last.enum,
                         LAMBDA d : d.connected /\ EntriesOf(last.before, d) # {})

\* getDevices kept an allowed connected device and dropped another device
\* of the enumeration.
C5_Witness ==
    /\ last.op = "discovered"
    /\ Outcome(last.settles) = "resolve"
    /\ Len(Settled(last.settles)) = 1
    /\ Len(last.enum) = 2
    /\ \E i \in 1..2 : ~last.enum[i].connected /\ EntriesOf(last.before, last.enum[i]) # {}

\* C6: for each event kind the USB object holds exactly one adapter
\* subscription while at least one listener of the kind is registered and
\* none while no listener of the kind is registered.
C6_OneSubscription ==
    \A kind \in EventKinds :
        adapterListeners[kind] = IF listeners[kind] > 0 THEN 1 ELSE 0

\* The last connect listener was removed while two disconnect listeners
\* stay registered on one subscription.
C6_Witness ==
    /\ last.op = "removeListener"
    /\ last.kind = "connect"
    /\ listeners["connect"] = 0
    /\ adapterListeners["connect"] = 0
    /\ listeners["disconnect"] = 2
    /\ adapterListeners["disconnect"] = 1

\* C7: on a connect notification the relay is subscribed to, a connect
\* event is emitted iff the
\* identity of the device is that of an allowed entry; then the entry is
\* replaced in place by the new record and the event carries the new
\* record; otherwise nothing is emitted and the list is unchanged.
C7_ConnectRelay ==
    (last.op = "connect" /\ adapterListeners["connect"] > 0)
        => LET hit == EntriesOf(last.before, last.device)
           IN /\ hit # {} <=> last.emitted # <<>>
              /\ hit # {} =>
                    /\ last.emitted = <<[event |-> "connect", device |-> last.device]>>
                    /\ Len(allowedDevices) = Len(last.before)
                    /\ \A i \in 1..Len(last.before) :
                           allowedDevices[i] =
                               IF i \in hit THEN last.device ELSE last.before[i]
              /\ hit = {} => allowedDevices = last.before

\* A reconnection refreshed the second entry of the list with a new record.
C7_Witness ==
    /\ last.op = "connect"
    /\ last.emitted # <<>>
    /\ Len(last.before) = 2
    /\ last.before[2] # last.device
    /\ allowedDevices[2] = last.device

\* C8: on a disconnect notification the relay is subscribed to, a
\* disconnect event is emitted iff an
\* allowed entry carries the handle; the event carries the record of that
\* entry, and the list is unchanged in both cases.
C8_DisconnectRelay ==
    (last.op = "disconnect" /\ adapterListeners["disconnect"] > 0)
        => LET hit == {i \in 1..Len(last.before) :
                          last.before[i] # undefined /\ last.before[i].handle = last.handle}
           IN /\ hit # {} <=> last.emitted # <<>>
              /\ hit # {} =>
                    \E i \in hit :
                        last.emitted = <<[event |-> "disconnect", device |-> last.before[i]]>>
              /\ allowedDevices = last.before

\* The device of the second entry was disconnected and its record emitted.
C8_Witness ==
    /\ last.op = "disconnect"
    /\ Len(allowedDevices) = 2
    /\ last.emitted = <<[event |-> "disconnect", device |-> allowedDevices[2]]>>

\* A filter that has protocolCode without subclassCode, or subclassCode
\* without classCode.
Offending(filter) ==
    \/ "protocolCode" \in filter.specified /\ "subclassCode" \notin filter.specified
    \/ "subclassCode" \in filter.specified /\ "classCode" \notin filter.specified

ExpectedError(filter) ==
    IF "protocolCode" \in filter.specified /\ "subclassCode" \notin filter.specified
    THEN TypeError("requestDevice error: subclass code is required")
    ELSE TypeError("requestDevice error: class code is required")

FirstOffending(filters) ==
    CHOOSE i \in 1..Len(filters) :
        Offending(filters[i]) /\ \A j \in 1..(i - 1) : ~Offending(filters[j])

\* C9: a requestDevice call whose filter sequence has a filter with
\* protocolCode (of any value) and no subclassCode, or with subclassCode and
\* no classCode, is rejected with the error of the first such filter and
\* the adapter is not asked for its devices.
C9_IncompleteFilterRejected ==
    (/\ last.op = "requestDevice"
     /\ last.options.shape = "object"
     /\ last.options.filtersShape = "array"
     /\ \E i \in 1..Len(last.options.filters) : Offending(last.options.filters[i]))
        => /\ Outcome(last.settles) = "reject"
           /\ Settled(last.settles) =
                  ExpectedError(last.options.filters[FirstOffending(last.options.filters)])
           /\ ~last.listCalled

\* An interface whose alternate codes equal every class-family code the
\* filter specifies.
IfaceSatisfies(filter, iface) ==
    /\ "classCode" \in filter.specified
           => filter.classCode = iface.alternate.interfaceClass
    /\ "subclassCode" \in filter.specified
           => filter.subclassCode = iface.alternate.interfaceSubclass
    /\ "protocolCode" \in filter.specified
           => filter.protocolCode = iface.alternate.interfaceProtocol

\* C10: when a filter specifies class-family codes and a serial number and
\* an interface satisfies the class-family codes, the filter matches the
\* device only if its serial number is the serial number of the device.
C10_SerialAfterInterfaceMatch ==
    (/\ last.op = "listed"
     /\ Len(last.enum) = 1
     /\ Len(last.options.filters) = 1)
        => LET filter == last.options.filters[1]
               device == last.enum[1]
               ifaces == device.configuration.interfaces
           IN (/\ {"classCode", "serialnumber"} \subseteq filter.specified
               /\ \E i \in 1..Len(ifaces) : IfaceSatisfies(filter, ifaces[i])
               /\ last.candidates = <<device>>)
                  => filter.serialnumber = device.serialNumber


\* The device's own class triple equals every class-family code the filter
\* specifies.
DeviceSatisfies(filter, device) ==
    /\ "classCode" \in filter.specified => filter.classCode = device.deviceClass
    /\ "subclassCode" \in filter.specified => filter.subclassCode = device.deviceSubclass
    /\ "protocolCode" \in filter.specified => filter.protocolCode = device.deviceProtocol

\* C11: for a validated filter of class-family codes and a device, the
\* filter matches exactly when the device's own class triple, or the
\* alternate triple of one single interface, equals every code the filter
\* specifies, whatever the values of the codes.
C11_ClassFamilyByEquality ==
    (/\ last.op = "listed"
     /\ Len(last.enum) = 1
     /\ Len(last.options.filters) = 1
     /\ last.options.filters[1].specified \subseteq
            {"classCode", "subclassCode", "protocolCode"})
        => LET filter == last.options.filters[1]
               device == last.enum[1]
               ifaces == device.configuration.interfaces
           IN last.candidates = <<device>>
                  <=> \/ DeviceSatisfies(filter, device)
                      \/ \E i \in 1..Len(ifaces) : IfaceSatisfies(filter, ifaces[i])


\* C12: when the enumeration of the adapter fails with an error E,
\* requestDevice rejects with a request-scoped error whose message is
\* "requestDevice error: " followed by the description of E (its name and
\* message, the name alone when the message is empty), never with E
\* itself; getDevices rejects with E itself; the allowed-device list is
\* unchanged in both cases.
C12_EnumerationFailure ==
    /\ (last.op = "listed" /\ ~last.enumOk)
           => /\ last.settles =
                     <<[call |-> "reject",
                        value |-> [name |-> "Error",
                                   message |->
                                       IF last.error.message = ""
                                       THEN "requestDevice error: " \o last.error.name
                                       ELSE "requestDevice error: " \o last.error.name
                                                \o ": " \o last.error.message]]>>
              /\ Settled(last.settles) # last.error
              /\ allowedDevices = last.before
    /\ (last.op = "discovered" /\ ~last.enumOk)
           => /\ last.settles = <<[call |-> "reject", value |-> last.error]>>
              /\ allowedDevices = last.before

\* The enumeration of a request failed while the list held a device.
C12_Witness ==
    /\ last.op = "listed"
    /\ ~last.enumOk
    /\ last.error \in AdapterErrors
    /\ Outcome(last.settles) = "reject"
    /\ Len(allowedDevices) > 0


\* C13: a requestDevice call that selects a device whose identity is that
\* of an allowed entry replaces that entry at its position by the selected
\* record and leaves the length of the list unchanged; otherwise the
\* selected record is appended as the last entry.  Either way the list then
\* holds exactly one entry of that identity, the selected record.
C13_ReplaceOrAppend ==
    (IsRequestOp(last.op) /\ Outcome(last.settles) = "resolve")
        => LET device == Settled(last.settles)
               hit == EntriesOf(last.before, device)
           IN /\ hit # {} =>
                    /\ Len(allowedDevices) = Len(last.before)
                    /\ \A i \in 1..Len(last.before) :
                           allowedDevices[i] = IF i \in hit THEN device ELSE last.before[i]
              /\ hit = {} => allowedDevices = Append(last.before, device)
              /\ \E i \in 1..Len(allowedDevices) :
                     /\ EntriesOf(allowedDevices, device) = {i}
                     /\ allowedDevices[i] = device

\* The device was selected again with another connected flag: its record
\* replaced the older one at the second position.
C13_Witness ==
    /\ last.op = "selected"
    /\ Outcome(last.settles) = "resolve"
    /\ Len(last.before) = 2
    /\ last.before[2] # undefined
    /\ isSameDevice(last.before[2], Settled(last.settles))
    /\ last.before[2].connected # Settled(last.settles).connected
    /\ allowedDevices[2] = Settled(last.settles)


\* The enumerated devices that match the filters, in enumeration order.
Matching(options, found) == SelectSeq(found, LAMBDA d : filterDevice(options, d))

\* C14: when no devicesFound callback is configured and at least one
\* enumerated device matches, requestDevice resolves with the first
\* matching device in enumeration order and that device is then in the
\* allowed-device list; when a callback is configured it is invoked with
\* the full sequence of matching devices, also when exactly one matches,
\* and the call stays pending until the callback answers.
C14_FirstMatchOrCallback ==
    (last.op = "listed" /\ last.enumOk
         /\ Matching(last.options, last.enum) # <<>>)
        => LET matching == Matching(last.options, last.enum)
           IN IF devicesFound
              THEN /\ last.asked
                   /\ last.candidates = matching
                   /\ last.settles = <<>>
                   /\ allowedDevices = last.before
              ELSE /\ ~last.asked
                   /\ last.settles = <<[call |-> "resolve", value |-> matching[1]]>>
                   /\ \E i \in 1..Len(allowedDevices) : allowedDevices[i] = matching[1]

\* Without a callback, of two enumerated devices only the second matched
\* and was selected.
C14_Witness ==
    /\ ~devicesFound
    /\ last.op = "listed"
    /\ Len(last.enum) = 2
    /\ Matching(last.options, last.enum) = <<last.enum[2]>>
    /\ Outcome(last.settles) = "resolve"
    /\ allowedDevices = <<last.enum[2]>>


\* C15: requestDevice({filters: []}) passes validation and, once the
\* enumeration succeeded, is rejected with the error "no devices found"
\* whatever devices were enumerated: it never resolves, the callback is not
\* asked and the allowed-device list is unchanged.
C15_EmptyFiltersRejected ==
    /\ (last.op = "requestDevice" /\ last.options = RequestOptions(<<>>))
           => last.listCalled /\ last.settles = <<>>
    /\ (last.op = "listed" /\ last.enumOk /\ last.options = RequestOptions(<<>>))
           => /\ last.settles =
                     <<[call |-> "reject",
                        value |-> [name |-> "Error",
                                   message |-> "requestDevice error: no devices found"]]>>
              /\ ~last.asked
              /\ allowedDevices = last.before

\* A request with an empty filter list was rejected although two devices
\* were enumerated.
C15_Witness ==
    /\ last.op = "listed"
    /\ last.options = RequestOptions(<<>>)
    /\ Len(last.enum) = 2
    /\ Outcome(last.settles) = "reject"


\* What a step of a requestDevice call does to the promise of the call.
SettlesOnce ==
    IsRequestOp(last.op)
        => /\ \/ Outcome(last.settles) \in {"resolve", "reject"}
              \/ last.op = "requestDevice" /\ last.listCalled
              \/ last.op = "listed" /\ last.asked
              \/ last.op \in {"listed", "selected"} /\ last.threw
           /\ (last.listCalled \/ last.asked) => last.settles = <<>>
           /\ last.op = "caught" => Outcome(last.settles) = "reject"
           /\ (last.op = "selected" /\ last.device = undefined /\ last.error = NoError)
                  => /\ Outcome(last.settles) = "reject"
                     /\ Settled(last.settles) =
                            [name |-> "Error", message |-> "selected device not found"]

\* C16: every requestDevice call whose enumeration and callback complete
\* eventually settles, as resolved or as rejected: each step of a call
\* either settles it or leaves it waiting for the adapter, the callback or
\* its own catch-callback, a call waiting for the adapter eventually gets
\* its enumeration handled, a call waiting for the callback eventually gets
\* the answer handled, and the catch-callback of a call whose then-callback
\* threw eventually runs and finds the call rejected; the first resolve or
\* reject is the outcome, and an empty result of the callback settles the
\* call as rejected with "selected device not found", never as resolved.
C16_EventuallySettles ==
    /\ []SettlesOnce
    /\ \A options \in CallOptions :
           BagIn(Listing(options), requests)
               ~> (/\ last.op = "listed"
                   /\ last.options = options
                   /\ \/ Outcome(last.settles) # "pending"
                      \/ BagIn(Selecting, requests)
                      \/ last.threw)
    /\ BagIn(Selecting, requests)
           ~> (/\ last.op = "selected"
               /\ (Outcome(last.settles) # "pending" \/ last.threw))
    /\ \A req \in CatchingCalls :
           BagIn(req, requests)
               ~> (/\ last.op = "caught"
                   /\ Outcome(last.settles) = "reject"
                   /\ SubSeq(last.settles, 1, Len(req.settles)) = req.settles)

\* The callback returned nothing: the call was rejected, and the resolve
\* that selectFn made afterwards was ignored.
C16_Witness ==
    /\ last.op = "selected"
    /\ last.device = undefined
    /\ last.error = NoError
    /\ Len(last.settles) = 2
    /\ last.settles[1].call = "reject"
    /\ last.settles[2].call = "resolve"

\* C17: when requestDevice calls that are in flight together select
\* devices of the same identity, in whatever order their continuations run,
\* the list holds exactly one entry of that identity after each selection,
\* at the position the first selection gave it, and the entry is the
\* record of the selection that completed last.
C17_LastSelectionWins ==
    (IsRequestOp(last.op) /\ Outcome(last.settles) = "resolve"
         /\ EntriesOf(last.before, Settled(last.settles)) # {})
        => /\ Len(allowedDevices) = Len(last.before)
           /\ \E i \in 1..Len(allowedDevices) :
                  /\ EntriesOf(last.before, Settled(last.settles)) = {i}
                  /\ EntriesOf(allowedDevices, Settled(last.settles)) = {i}
                  /\ allowedDevices[i] = Settled(last.settles)

\* Two calls were in flight together; the second to complete selected the
\* identity the first had selected, with another record, and no call
\* remains in flight.
C17_Witness ==
    /\ IsRequestOp(last.op)
    /\ Outcome(last.settles) = "resolve"
    /\ Len(last.before) = 1
    /\ EntriesOf(last.before, Settled(last.settles)) = {1}
    /\ last.before[1] # Settled(last.settles)
    /\ allowedDevices = <<Settled(last.settles)>>
    /\ requests = EmptyBag


\* C20: the relay acts only while its kind of event is subscribed: a
\* connect notification of the adapter while no connect listener is
\* registered changes no entry of the list and emits nothing, and adding or
\* removing a listener of one kind changes neither the listeners nor the
\* adapter subscription of the other kind, nor the list.
C20_RelayOnlyWhileSubscribed ==
    [][/\ (last'.op = "connect" /\ listeners["connect"] = 0)
           => /\ allowedDevices' = allowedDevices
              /\ last'.emitted = <<>>
              /\ ~last'.threw
       /\ last'.op \in {"addListener", "removeListener"}
           => /\ allowedDevices' = allowedDevices
              /\ listeners'[last'.kind] # listeners[last'.kind]
              /\ \A kind \in EventKinds \ {last'.kind} :
                     /\ listeners'[kind] = listeners[kind]
                     /\ adapterListeners'[kind] = adapterListeners[kind]]_vars

\* A device of the list reconnected with a new record while no connect
\* listener was registered, a disconnect listener being registered: the
\* list kept the older record.
C20_Witness ==
    /\ last.op = "connect"
    /\ listeners["connect"] = 0
    /\ listeners["disconnect"] > 0
    /\ EntriesOf(allowedDevices, last.device) # {}
    /\ \A i \in EntriesOf(allowedDevices, last.device) : allowedDevices[i] # last.device


\* C18: a getDevices call, at the call and when its enumeration completes,
\* whatever the enumeration of the adapter yields (devices or a failure),
\* leaves the allowed-device list, the registered
\* listeners and the adapter subscriptions as they were, emits no connect
\* or disconnect event and touches no requestDevice call in flight.
C18_GetDevicesFrame ==
    [][last'.op \in {"getDevices", "discovered"}
           => /\ allowedDevices' = allowedDevices
              /\ listeners' = listeners
              /\ adapterListeners' = adapterListeners
              /\ requests' = requests
              /\ last'.emitted = <<>>]_vars

\* getDevices returned fewer devices than the list holds, while the relay
\* was subscribed to connect notifications: the list still holds both.
C18_Witness ==
    /\ last.op = "discovered"
    /\ Outcome(last.settles) = "resolve"
    /\ Len(allowedDevices) = 2
    /\ Len(Settled(last.settles)) < 2
    /\ adapterListeners["connect"] = 1


\* C19: the allowed-device list is never pruned: no step makes it shorter,
\* and every identity triple that has an entry before a step has an entry
\* after it, hence in every later state, also when the step is the
\* disconnection of that device.
C19_NeverPruned ==
    [][/\ Len(allowedDevices') >= Len(allowedDevices)
       /\ \A i \in 1..Len(allowedDevices) :
              allowedDevices[i] # undefined
                  => EntriesOf(allowedDevices', allowedDevices[i]) # {}]_vars

\* The device of the first of two entries was disconnected and the
\* disconnect event emitted: both entries are still in the list.
C19_Witness ==
    /\ last.op = "disconnect"
    /\ Len(allowedDevices) = 2
    /\ allowedDevices[1] # undefined
    /\ allowedDevices[1].handle = last.handle
    /\ last.emitted # <<>>
    /\ allowedDevices = last.before

====
